---- MODULE Spec2Model ----
(***************************************************************************)
(* MoodFlix: the Home page component (emotion stabilizer, fetch            *)
(* orchestrator, scan session controller) and the part of CameraFeed that  *)
(* delivers emotion samples to it.                                         *)
(*                                                                         *)
(* Time is counted in units of 100 ms, and every clock is kept as a        *)
(* distance: a timer holds the time left until it is due, and              *)
(* lastFetchTimeRef is kept as Date.now() - lastFetchTimeRef.current,      *)
(* saturated at the cooldown (the only value the code compares it with;    *)
(* the initial 0 and the 0 written by handleScanAgain are "long ago").     *)
(* A timer callback runs at the instant it is due: time does not pass a    *)
(* due timer.  Confidence is in percent.  lastSearchedEmotion is written   *)
(* and never read, and is left out.                                        *)
(***************************************************************************)
EXTENDS Integers, Sequences, FiniteSets, Bags, TLC

\* ---------------------------------------------------------------- constants
HIGH_CONFIDENCE == 90      \* if (confidence < 0.9) return
STABLE_REQUIRED == 2       \* if (stableCountRef.current < 2) return
FETCH_COOLDOWN == 30       \* if (now - lastFetchTimeRef.current < 3000) return
SETTLE_DELAY == 3          \* setTimeout(..., 300)
SCAN_DURATION == 5         \* const SCAN_DURATION = 5
TICK_INTERVAL == 10        \* setInterval(..., 1000)

\* ------------------------------------------------------------------- bounds
MaxInflight == 2           \* fetches awaiting their response at once
MaxCount == 3              \* cap of stableCountRef for accepted samples

None == "none"
\* searchKeyword is null: no keyword is shown
NoKeyword == [src |-> "none", q |-> ""]
\* what mapExpressionToEmotion can hand to onEmotionDetected
SampleEmotions == {"happy", "sad"}
Confidences == {89, 90, 95}
\* a YouTubeVideo: its id and its title (for all of its other fields)
V1 == [id |-> "v1", title |-> "one"]
V2 == [id |-> "v2", title |-> "two"]
V1Retitled == [id |-> "v1", title |-> "uno"]
\* bodies of 2xx responses: data.videos
Responses ==
  {<<>>, <<V1>>, <<V2>>, <<V1, V2>>, <<V2, V1>>, <<V1, V1>>, <<V1Retitled>>}
\* failures of a fetch: fetch() rejects, non-2xx with {error}, non-2xx with
\* an empty error string, a body that is not JSON
Failures == {"network", "http_error", "http_empty", "bad_json"}
\* contents of the search box, as sequences of characters
Whitespace == {" ", "\t", "\n"}
Queries ==
  {<<"a", " ", "b">>, <<" ", "a", " ", "b", "\t">>, <<" ", "\n">>, <<>>}

VARIABLES
  \* Home: React state
  showConsent, cameraActive, cameraError, isScanning, scanCountdown,
  currentEmotion, searchKeyword,
  videos, isLoadingVideos, videoError, hasLoadedVideos,
  \* Home: refs
  emotionTimerRef, countdownTimerRef, stableEmotionRef, stableCountRef,
  sinceLastFetch,
  \* environment: the timers the browser holds, the fetches awaiting a
  \* response, a frame analysis awaiting its result
  pendingTimeouts, pendingIntervals, inflight, detecting,
  \* CameraFeed:
  \*   feed     phase of the rendered CameraFeed: "none" (not rendered),
  \*            "loading" (models loading), "acquiring" (getUserMedia
  \*            pending), "streaming" (streamRef holds a live stream)
  \*   lateOps  the phases in which CameraFeed instances were unmounted and
  \*            whose pending promise has not settled yet
  \*   leaked   a stream with live tracks that no rendered CameraFeed holds
  feed, lateOps, leaked,
  \* history, read by no handler:
  \*   consentAccepted    handleAcceptConsent has run
  \*   uncaught           the error that no handler caught and that took the
  \*                      page down, "none": none
  \*   acceptedPrev       label of the last sample with confidence >= 0.90
  \*   pairSeen           two consecutive such samples carried the same label
  \*   lowBetween         recorded by FrameNoted only.  "other": a sample
  \*                      below 0.90 with another label than stableEmotionRef
  \*                      came since the last accepted one; "bridged": the
  \*                      last accepted sample came after such a sample and
  \*                      carried the label of stableEmotionRef
  \*   cooled             recorded by FrameCooled only: the last accepted
  \*                      sample was a stable detection inside the cooldown
  \*   lastThrew          the last frame analysis that ended threw an error
  \*   reported           recorded by FrameScored only: the scores of the
  \*                      last frame, and the emotion and the confidence
  \*                      CameraFeed passed to onEmotionDetected for it
  \*   sinceEmotionFetch  time since the last emotion-triggered fetch, -1: none
  \*   restartSince       a scan again happened since that fetch
  \*   settleAge          time since the pending trigger's emotion got its
  \*                      first trigger, -1: no trigger
  \*   replaced           emotion of the trigger the pending one superseded
  \*   ticks              countdown ticks since startCountdown
  \*   expected           ids listed by the merged responses of the fetches
  \*                      issued since the last scan again
  \*   overlapped         two such fetches were in flight together
  \*   inflight[..].stale the fetch was issued before the last scan again
  acceptedPrev, pairSeen, lowBetween, cooled, lastThrew, reported,
  sinceEmotionFetch, restartSince, settleAge, replaced, ticks, expected, overlapped,
  consentAccepted, uncaught

sessionState == <<showConsent, cameraActive, cameraError, isScanning, scanCountdown>>
display == <<currentEmotion, searchKeyword>>
videoState == <<videos, isLoadingVideos, videoError, hasLoadedVideos>>
stabilizer == <<stableEmotionRef, stableCountRef>>
timers == <<emotionTimerRef, countdownTimerRef, pendingTimeouts, pendingIntervals>>
samplesSeen == <<acceptedPrev, pairSeen, lowBetween, cooled, lastThrew, reported>>
fetchClock == <<sinceLastFetch, sinceEmotionFetch, restartSince>>
settle == <<settleAge, replaced>>
merges == <<expected, overlapped>>
cameraFeed == <<feed, lateOps, leaked>>
vars == <<showConsent, cameraActive, cameraError, isScanning, scanCountdown,
          currentEmotion, searchKeyword,
          videos, isLoadingVideos, videoError, hasLoadedVideos,
          emotionTimerRef, countdownTimerRef, stableEmotionRef, stableCountRef,
          sinceLastFetch, pendingTimeouts, pendingIntervals, inflight, detecting,
          acceptedPrev, pairSeen, lowBetween, cooled, lastThrew, reported,
          sinceEmotionFetch, restartSince, settleAge, replaced, ticks, expected, overlapped,
          feed, lateOps, leaked, consentAccepted, uncaught>>

\* ------------------------------------------------------------------ helpers
\* new Set(prevVideos.map(v => v.id))
Ids(list) == {list[i].id : i \in 1..Len(list)}

Occurrences(list, id) == Cardinality({i \in 1..Len(list) : list[i].id = id})

\* data.videos.filter(v => !existingIds.has(v.id))
FilterNew(resp, existingIds) ==
  SelectSeq(resp, LAMBDA v : v.id \notin existingIds)

\* a merge that appends the whole response
MergeAppendsAll(prevVideos, resp) == prevVideos \o resp

\* a merge that puts the new items first
MergePrepends(prevVideos, resp) ==
  FilterNew(resp, Ids(prevVideos)) \o prevVideos

\* setVideos(prevVideos => [...prevVideos, ...newVideos])
MergeVideos(prevVideos, resp) ==
  prevVideos \o FilterNew(resp, Ids(prevVideos))

\* data.error || 'Failed to fetch videos', or the message of the thrown error
ErrorMessage(failure) ==
  CASE failure = "network" -> "Failed to fetch"
    [] failure = "http_error" -> "Failed to fetch videos from YouTube"
    [] failure = "http_empty" -> "Failed to fetch videos"
    [] failure = "bad_json" -> "Unexpected token"

\* clearTimeout / clearInterval: a null, fired or cleared handle is a no-op
ClearTimeout(handle) == {t \in pendingTimeouts : t.id # handle}
ClearInterval(handle) == {i \in pendingIntervals : i.id # handle}

\* the handle setTimeout returns: one the ref does not hold
NewHandle == IF emotionTimerRef = 1 THEN 2 ELSE 1

\* the handle setInterval returns: one the ref does not hold
NewIntervalHandle == IF countdownTimerRef = 1 THEN 2 ELSE 1

\* the CameraFeed component is rendered
CameraFeedMounted == cameraError = None /\ cameraActive

\* detection.expressions of face-api.js: a score per expression, in hundredths
Scores(happy, sad, neutral, surprised, angry) ==
  [happy |-> happy, sad |-> sad, neutral |-> neutral, surprised |-> surprised,
   angry |-> angry, fearful |-> 0, disgusted |-> 0]

\* no frame has been scored yet
NoReport == [scores |-> Scores(0, 0, 0, 0, 0), emotion |-> None, confidence |-> 0]

Init ==
  /\ showConsent = TRUE
  /\ cameraActive = FALSE
  /\ cameraError = None
  /\ isScanning = FALSE
  /\ scanCountdown = 0
  /\ currentEmotion = None
  /\ searchKeyword = NoKeyword
  /\ videos = <<>>
  /\ isLoadingVideos = FALSE
  /\ videoError = None
  /\ hasLoadedVideos = FALSE
  /\ emotionTimerRef = 0
  /\ countdownTimerRef = 0
  /\ stableEmotionRef = None
  /\ stableCountRef = 0
  /\ sinceLastFetch = FETCH_COOLDOWN
  /\ pendingTimeouts = {}
  /\ pendingIntervals = {}
  /\ inflight = EmptyBag
  /\ detecting = FALSE
  /\ acceptedPrev = None
  /\ pairSeen = FALSE
  /\ lowBetween = "no"
  /\ cooled = FALSE
  /\ lastThrew = FALSE
  /\ reported = NoReport
  /\ sinceEmotionFetch = -1
  /\ restartSince = FALSE
  /\ settleAge = -1
  /\ replaced = None
  /\ ticks = 0
  /\ expected = {}
  /\ overlapped = FALSE
  /\ feed = "none"
  /\ lateOps = {}
  /\ leaked = FALSE
  /\ consentAccepted = FALSE
  /\ uncaught = None

\* ------------------------------------------------------------- fetchVideos
\* the synchronous part of fetchVideos(keyword), up to the await of fetch()
FetchVideos(keyword) ==
  /\ isLoadingVideos' = TRUE
  /\ videoError' = None
  /\ inflight' = inflight (+) SetToBag({[kw |-> keyword, stale |-> FALSE]})
  /\ overlapped' = (overlapped \/ \E g \in BagToSet(inflight) : ~g.stale)
  /\ UNCHANGED <<videos, hasLoadedVideos, expected>>

\* the response is 2xx with body {videos: resp}
FetchSucceed(f, resp) ==
  /\ BagIn(f, inflight)
  /\ videos' = MergeVideos(videos, resp)
  /\ hasLoadedVideos' = TRUE
  /\ isLoadingVideos' = FALSE
  /\ inflight' = inflight (-) SetToBag({f})
  /\ expected' = IF f.stale THEN expected ELSE expected \cup Ids(resp)
  /\ UNCHANGED <<sessionState, cameraFeed, consentAccepted, uncaught, display, videoError, stabilizer, timers, detecting,
                 samplesSeen, fetchClock, settle, ticks, overlapped>>

\* a catch block that also empties the list
FetchFailClearsList(f, failure) ==
  /\ BagIn(f, inflight)
  /\ videoError' = ErrorMessage(failure)
  /\ isLoadingVideos' = FALSE
  /\ videos' = <<>>
  /\ inflight' = inflight (-) SetToBag({f})
  /\ UNCHANGED <<sessionState, cameraFeed, consentAccepted, uncaught, display, hasLoadedVideos, stabilizer, timers,
                 detecting, samplesSeen, fetchClock, settle, ticks, merges>>

\* the catch block and the finally block of fetchVideos, for an error with
\* this message
FetchCaught(f, message) ==
  /\ BagIn(f, inflight)
  /\ videoError' = message
  /\ isLoadingVideos' = FALSE
  /\ inflight' = inflight (-) SetToBag({f})
  /\ UNCHANGED <<sessionState, cameraFeed, consentAccepted, uncaught, display, videos, hasLoadedVideos, stabilizer, timers,
                 detecting, samplesSeen, fetchClock, settle, ticks, merges>>

\* fetch() rejects, response.json() throws, or the status is not 2xx
FetchFail(f, failure) ==
  /\ BagIn(f, inflight)
  /\ videoError' = ErrorMessage(failure)
  /\ isLoadingVideos' = FALSE
  /\ inflight' = inflight (-) SetToBag({f})
  /\ UNCHANGED <<sessionState, cameraFeed, consentAccepted, uncaught, display, videos, hasLoadedVideos, stabilizer, timers,
                 detecting, samplesSeen, fetchClock, settle, ticks, merges>>

\* the response is 2xx and its body has no videos list: setVideos takes the
\* updater, and the updater throws a TypeError (data.videos is undefined)
\* when React runs it to render Home, outside the try block of fetchVideos;
\* no error boundary is rendered around Home, so the page is taken down and
\* none of the state updates of this response is shown
FetchMalformed(f) ==
  /\ BagIn(f, inflight)
  /\ inflight' = inflight (-) SetToBag({f})
  /\ uncaught' = "TypeError"
  /\ UNCHANGED <<sessionState, cameraFeed, consentAccepted, display, videoState,
                 stabilizer, timers, detecting, samplesSeen, fetchClock, settle,
                 ticks, merges>>

\* --------------------------------------------------- handleEmotionDetected
\* a handler without the confidence gate
AcceptsAnyConfidence(confidence) == TRUE

\* a confidence gate with a lower threshold
AcceptsFrom80(confidence) == confidence >= 80

\* a confidence gate that rejects the threshold itself
AcceptsAboveOnly(confidence) == confidence > HIGH_CONFIDENCE

\* if (confidence < 0.9) return
Accepted(confidence) == confidence >= HIGH_CONFIDENCE

\* stableCountRef after an accepted sample
NextStableCount(emotion) ==
  IF emotion = stableEmotionRef THEN stableCountRef + 1 ELSE 1

\* a handler that takes one accepted sample for a stable emotion
StableAfterOne(count) == count >= 1

\* if (stableCountRef.current < 2) return
IsStable(count) == count >= STABLE_REQUIRED

\* a cooldown of one second
CooldownOfOneSecond == sinceLastFetch >= 10

\* a handler without the cooldown gate
CooldownIgnored == TRUE

\* if (now - lastFetchTimeRef.current < 3000) return
CooldownElapsed == sinceLastFetch >= FETCH_COOLDOWN

\* a handler that schedules without clearTimeout
ScheduleKeepingOld(emotion) ==
  pendingTimeouts
    \cup {[id |-> NewHandle, left |-> SETTLE_DELAY, emotion |-> emotion]}

\* the timers the browser holds after clearTimeout(old) and setTimeout(.., 300)
Reschedule(emotion) ==
  ClearTimeout(emotionTimerRef)
    \cup {[id |-> NewHandle, left |-> SETTLE_DELAY, emotion |-> emotion]}

HandleEmotionDetected(emotion, confidence) ==
  IF ~Accepted(confidence)
  THEN UNCHANGED <<stabilizer, currentEmotion, emotionTimerRef, pendingTimeouts>>
  ELSE
    /\ stableEmotionRef' = emotion
    /\ stableCountRef' = NextStableCount(emotion)
    /\ IF ~IsStable(NextStableCount(emotion))
       THEN UNCHANGED <<currentEmotion, emotionTimerRef, pendingTimeouts>>
       ELSE
         /\ currentEmotion' = emotion
         /\ IF ~CooldownElapsed
            THEN UNCHANGED <<emotionTimerRef, pendingTimeouts>>
            ELSE /\ pendingTimeouts' = Reschedule(emotion)
                 /\ emotionTimerRef' = NewHandle

\* ---------------------------------------------------------------- CameraFeed
\* onEmotionDetected(emotion, confidence), and what it adds to the history
Deliver(emotion, confidence) ==
  /\ (Accepted(confidence) /\ emotion = stableEmotionRef) => stableCountRef < MaxCount
  /\ HandleEmotionDetected(emotion, confidence)
  /\ IF confidence >= HIGH_CONFIDENCE
     THEN /\ acceptedPrev' = emotion
          /\ pairSeen' = (pairSeen \/ acceptedPrev = emotion)
     ELSE UNCHANGED <<acceptedPrev, pairSeen>>
  /\ IF emotionTimerRef' = emotionTimerRef
     THEN UNCHANGED settle
     ELSE /\ settleAge' = IF \E t \in pendingTimeouts : t.emotion = emotion
                          THEN settleAge ELSE 0
          /\ replaced' = IF pendingTimeouts = {} THEN None
                         ELSE IF \E t \in pendingTimeouts : t.emotion # emotion
                         THEN (CHOOSE t \in pendingTimeouts : t.emotion # emotion).emotion
                         ELSE replaced
  /\ lastThrew' = FALSE
  /\ UNCHANGED <<sessionState, cameraFeed, consentAccepted, uncaught, searchKeyword, videoState, countdownTimerRef,
                 pendingIntervals, inflight, fetchClock, ticks, merges>>

\* detectEmotions starts the analysis of a frame of the playing video
DetectStart ==
  /\ feed = "streaming"
  /\ ~detecting
  /\ detecting' = TRUE
  /\ UNCHANGED <<sessionState, cameraFeed, consentAccepted, uncaught, display, videoState, stabilizer, timers, inflight,
                 samplesSeen, fetchClock, settle, ticks, merges>>

\* the analysis finds no face: the loop is re-armed
NoFace ==
  /\ detecting
  /\ detecting' = FALSE
  /\ lastThrew' = FALSE
  /\ UNCHANGED <<sessionState, cameraFeed, consentAccepted, uncaught, display, videoState, stabilizer, timers, inflight,
                 acceptedPrev, pairSeen, lowBetween, cooled, reported, fetchClock, settle,
                 ticks, merges>>

\* an analysis whose error is handed to onError like a camera failure
DetectThrowsEndsSession ==
  /\ detecting
  /\ detecting' = FALSE
  /\ lastThrew' = TRUE
  /\ cameraError' = "Failed to access camera. Please check your permissions."
  /\ cameraActive' = FALSE
  /\ isScanning' = FALSE
  /\ feed' = "none"
  /\ UNCHANGED <<showConsent, scanCountdown, lateOps, leaked, consentAccepted,
                 uncaught, display, videoState, stabilizer, timers, inflight,
                 acceptedPrev, pairSeen, lowBetween, cooled, reported, fetchClock, settle,
                 ticks, merges>>

\* the analysis throws: the catch block logs the error, and the loop is
\* re-armed behind the try statement
DetectThrows ==
  /\ detecting
  /\ detecting' = FALSE
  /\ lastThrew' = TRUE
  /\ UNCHANGED <<sessionState, cameraFeed, consentAccepted, uncaught, display, videoState, stabilizer, timers, inflight,
                 acceptedPrev, pairSeen, lowBetween, cooled, reported, fetchClock, settle,
                 ticks, merges>>

\* an analysis started earlier finds a face
Sample(emotion, confidence) ==
  /\ detecting
  /\ detecting' = FALSE
  /\ Deliver(emotion, confidence)
  /\ UNCHANGED <<lowBetween, cooled, reported>>

\* detectEmotions analyses a frame and finds a face, with no other event
\* between the start of the analysis and its result
Frame(emotion, confidence) ==
  /\ CameraFeedMounted
  /\ ~detecting
  /\ UNCHANGED detecting
  /\ Deliver(emotion, confidence)
  /\ UNCHANGED <<lowBetween, cooled, reported>>

\* the same frame, with the history of the rejected samples recorded
FrameNoted(emotion, confidence) ==
  /\ CameraFeedMounted
  /\ ~detecting
  /\ UNCHANGED detecting
  /\ Deliver(emotion, confidence)
  /\ lowBetween' =
       IF confidence >= HIGH_CONFIDENCE
       THEN IF lowBetween = "other" /\ emotion = stableEmotionRef
            THEN "bridged" ELSE "no"
       ELSE IF emotion # stableEmotionRef THEN "other" ELSE lowBetween
  /\ UNCHANGED <<cooled, reported>>

\* the same frame, with the cooldown's effect on it recorded
FrameCooled(emotion, confidence) ==
  /\ CameraFeedMounted
  /\ ~detecting
  /\ UNCHANGED detecting
  /\ Deliver(emotion, confidence)
  /\ cooled' =
       IF confidence >= HIGH_CONFIDENCE
       THEN IsStable(stableCountRef') /\ sinceLastFetch < FETCH_COOLDOWN
       ELSE cooled
  /\ UNCHANGED <<lowBetween, reported>>

\* ------------------------------------------------------------ emotionMapping
\* type Emotion
Emotions == {"happy", "sad", "neutral", "surprised"}

\* the emotions mapExpressionToEmotion returns
DetectableEmotions == {"happy", "sad", "neutral"}

\* the scores a frame can carry: each of happy, sad, neutral, surprised and
\* angry at one of these levels, the five making up the whole
ScoreLevels == {0, 10, 25, 30, 50, 90}

ExpressionVectors ==
  {Scores(q[1], q[2], q[3], q[4], 100 - (q[1] + q[2] + q[3] + q[4])) :
     q \in {r \in ScoreLevels \X ScoreLevels \X ScoreLevels \X ScoreLevels :
              100 - (r[1] + r[2] + r[3] + r[4]) \in ScoreLevels}}

\* relevantExpressions
RelevantExpressions(expressions) ==
  [happy |-> expressions.happy,
   sad |-> expressions.sad,
   neutral |-> expressions.neutral + expressions.surprised]

\* a loop body that lets the later entry win a tie
KeepLaterOnTie(max, emotion, score) ==
  IF score >= max.score THEN [emotion |-> emotion, score |-> score] ELSE max

\* the body of the loop over Object.entries(relevantExpressions):
\* if (score > maxScore) { maxScore = score; maxEmotion = emotion }
KeepGreater(max, emotion, score) ==
  IF score > max.score THEN [emotion |-> emotion, score |-> score] ELSE max

\* mapExpressionToEmotion(expressions): the loop visits the entries in the
\* order of the object literal, happy, sad, neutral; 0.3 is 30 hundredths
MapExpressionToEmotion(expressions) ==
  LET relevant == RelevantExpressions(expressions)
      start == [emotion |-> "neutral", score |-> 0]
      afterHappy == KeepGreater(start, "happy", relevant.happy)
      afterSad == KeepGreater(afterHappy, "sad", relevant.sad)
      max == KeepGreater(afterSad, "neutral", relevant.neutral)
  IN IF max.score < 30 THEN "neutral" ELSE max.emotion

\* detectEmotions analyses a frame and finds a face with these scores:
\* emotion = mapExpressionToEmotion(expressions), emotionConfidence =
\* expressions[emotion], onEmotionDetected(emotion, emotionConfidence)
FrameScored(expressions) ==
  /\ CameraFeedMounted
  /\ ~detecting
  /\ UNCHANGED detecting
  /\ LET emotion == MapExpressionToEmotion(expressions)
         emotionConfidence == expressions[emotion]
     IN /\ Deliver(emotion, emotionConfidence)
        /\ reported' = [scores |-> expressions, emotion |-> emotion,
                        confidence |-> emotionConfidence]
  /\ UNCHANGED <<lowBetween, cooled>>

\* emotionMapping[emotion].keywords
Keywords(emotion) ==
  CASE emotion = "happy" ->
         <<"romantic hindi songs 2024", "bengali romantic songs",
           "bollywood romantic songs", "bangla romantic songs",
           "hindi love songs", "arijit singh romantic songs",
           "bengali love songs", "hindi romantic hits", "bangla love songs 2024">>
    [] emotion = "sad" ->
         <<"sad hindi songs 2024", "bengali sad songs", "bollywood sad songs",
           "bangla sad songs", "hindi heartbreak songs", "arijit singh sad songs",
           "bengali emotional songs", "hindi sad music", "bangla heartbreak songs">>
    [] emotion \in {"neutral", "surprised"} ->
         <<"hindi romantic songs mix", "bengali mix songs", "bollywood hits 2024",
           "bangla popular songs", "hindi top songs", "bollywood party songs",
           "bengali trending songs", "hindi mix playlist", "bangla best songs">>

\* Math.random(), in thousandths: a number in [0, 1)
RandomDraws == {0, 999}

\* keywords[index] of JavaScript, for a 0-based index
At(keywords, index) ==
  IF index + 1 \in DOMAIN keywords THEN keywords[index + 1] ELSE "undefined"

\* a draw that rounds to the nearest index
GetRandomKeywordRounded(emotion, random) ==
  At(Keywords(emotion), (random * Len(Keywords(emotion)) + 500) \div 1000)

\* keywords[Math.floor(Math.random() * keywords.length)]
GetRandomKeyword(emotion, random) ==
  At(Keywords(emotion), (random * Len(Keywords(emotion))) \div 1000)

\* the setTimeout callback of handleEmotionDetected, with the keyword it draws
TimerCallback(t, keyword) ==
  /\ t \in pendingTimeouts
  /\ t.left = 0
  /\ BagCardinality(inflight) < MaxInflight
  /\ pendingTimeouts' = pendingTimeouts \ {t}
  /\ searchKeyword' = [src |-> "emotion", q |-> keyword]
  /\ FetchVideos([src |-> "emotion", q |-> keyword])
  /\ sinceLastFetch' = 0
  /\ sinceEmotionFetch' = 0
  /\ restartSince' = FALSE
  /\ settleAge' = -1
  /\ replaced' = None
  /\ UNCHANGED <<sessionState, cameraFeed, consentAccepted, uncaught, currentEmotion, emotionTimerRef, countdownTimerRef,
                 stabilizer, pendingIntervals, detecting, samplesSeen, ticks>>

\* the callback, with the keyword kept as the emotion it is drawn for
EmotionTimerFire(t) == TimerCallback(t, t.emotion)

\* the callback, with the keyword getRandomKeyword draws
EmotionTimerFireDrawn(t, random) ==
  TimerCallback(t, GetRandomKeyword(t.emotion, random))

\* ---------------------------------------------- CameraFeed: mount and unmount
\* CameraFeed is rendered after the handler's state updates
MountedNext == cameraError' = None /\ cameraActive'

\* React renders Home after a handler: a CameraFeed that was in the phase
\* given is kept, mounted (it starts loading its models) or unmounted.  The
\* unmount cleanup cancels the animation frame only: a pending model load or
\* getUserMedia goes on, and a stream in streamRef keeps its tracks.
Render(phase, late, live) ==
  IF MountedNext
  THEN /\ feed' = IF phase = "none" THEN "loading" ELSE phase
       /\ lateOps' = late
       /\ leaked' = live
  ELSE /\ feed' = "none"
       /\ lateOps' = late \cup ({phase} \cap {"loading", "acquiring"})
       /\ leaked' = (live \/ phase = "streaming")

\* the render after a handler of Home that CameraFeed did not call
Rendered == Render(feed, lateOps, leaked)

\* stopCamera: the tracks of the stream in streamRef are stopped
StopTracks(phase) == IF phase = "streaming" THEN "stopped" ELSE phase

\* ------------------------------------------------------ session controller
\* a countdown that starts its ticker without clearInterval
StartCountdownKeepingOld ==
  /\ scanCountdown' = SCAN_DURATION
  /\ pendingIntervals' =
       pendingIntervals \cup {[id |-> NewIntervalHandle, left |-> TICK_INTERVAL]}
  /\ countdownTimerRef' = NewIntervalHandle
  /\ ticks' = 0

StartCountdown ==
  /\ scanCountdown' = SCAN_DURATION
  /\ pendingIntervals' =
       ClearInterval(countdownTimerRef)
         \cup {[id |-> NewIntervalHandle, left |-> TICK_INTERVAL]}
  /\ countdownTimerRef' = NewIntervalHandle
  /\ ticks' = 0

\* a countdown that ends one tick late
ExpiredAtZero(prev) == prev <= 0

\* if (prev <= 1): the scan time is up
CountdownExpired(prev) == prev <= 1

\* the setInterval callback of startCountdown
CountdownTick(i) ==
  /\ i \in pendingIntervals
  /\ i.left = 0
  /\ LET rearmed == (pendingIntervals \ {i}) \cup {[i EXCEPT !.left = TICK_INTERVAL]}
     IN IF CountdownExpired(scanCountdown)
        THEN /\ pendingIntervals' = {j \in rearmed : j.id # countdownTimerRef}
             /\ cameraActive' = FALSE
             /\ isScanning' = FALSE
             /\ scanCountdown' = 0
        ELSE /\ pendingIntervals' = rearmed
             /\ scanCountdown' = scanCountdown - 1
             /\ UNCHANGED <<cameraActive, isScanning>>
  /\ ticks' = ticks + 1
  /\ UNCHANGED <<showConsent, cameraError, display, videoState, emotionTimerRef,
                 countdownTimerRef, stabilizer, pendingTimeouts, inflight, detecting,
                 samplesSeen, fetchClock, settle, merges, consentAccepted, uncaught>>
  /\ Rendered

HandleAcceptConsent ==
  /\ showConsent
  /\ showConsent' = FALSE
  /\ cameraActive' = TRUE
  /\ isScanning' = TRUE
  /\ StartCountdown
  /\ consentAccepted' = TRUE
  /\ UNCHANGED uncaught
  /\ UNCHANGED <<cameraError, display, videoState, emotionTimerRef, stabilizer,
                 pendingTimeouts, inflight, detecting, samplesSeen, fetchClock,
                 settle, merges>>
  /\ Rendered

HandleDeclineConsent ==
  /\ showConsent
  /\ showConsent' = FALSE
  /\ cameraError' =
       "Camera access was declined. You can refresh the page to try again."
  /\ UNCHANGED <<cameraActive, isScanning, scanCountdown, display, videoState,
                 stabilizer, timers, inflight, detecting, samplesSeen,
                 fetchClock, settle, ticks, merges, consentAccepted, uncaught>>
  /\ Rendered

\* the Stop Camera button: stopCamera() calls onStop
HandleCameraStop ==
  /\ CameraFeedMounted
  /\ cameraActive' = FALSE
  /\ isScanning' = FALSE
  /\ pendingTimeouts' = ClearTimeout(emotionTimerRef)
  /\ pendingIntervals' = ClearInterval(countdownTimerRef)
  /\ settleAge' = -1
  /\ replaced' = None
  /\ UNCHANGED <<showConsent, cameraError, scanCountdown, display, videoState,
                 emotionTimerRef, countdownTimerRef, stabilizer, inflight, detecting,
                 samplesSeen, fetchClock, ticks, merges, consentAccepted, uncaught>>
  /\ Render(StopTracks(feed), lateOps, leaked)

\* an error handler that leaves the camera flags alone
HandleCameraErrorKeepsCamera(error) ==
  /\ cameraError' = error
  /\ UNCHANGED <<cameraActive, isScanning>>
  /\ UNCHANGED <<showConsent, scanCountdown, display, videoState, stabilizer, timers,
                 inflight, detecting, samplesSeen, fetchClock, settle, ticks,
                 merges, consentAccepted, uncaught>>

\* onError of CameraFeed, called by a rendered or an unmounted instance
HandleCameraError(error) ==
  /\ cameraError' = error
  /\ cameraActive' = FALSE
  /\ isScanning' = FALSE
  /\ UNCHANGED <<showConsent, scanCountdown, display, videoState, stabilizer, timers,
                 inflight, detecting, samplesSeen, fetchClock, settle, ticks,
                 merges, consentAccepted, uncaught>>

\* ------------------------------------------- CameraFeed: models and camera
\* the names of the errors getUserMedia rejects with; "TypeError" is the one
\* thrown by videoRef.current.srcObject = stream once the video is unmounted
GetUserMediaErrors == {"NotAllowedError", "NotFoundError", "NotReadableError"}

ModelsMessage ==
  "Failed to load emotion detection models. Please refresh and try again."

\* a catch block with one message for every failure
SameMessageForAll(name) ==
  "Failed to access camera. Please check your permissions."

\* the message startCamera's catch block hands to onError
CameraErrorMessage(name) ==
  CASE name = "NotAllowedError" ->
         "Camera access was denied. Please allow camera access in your browser settings."
    [] name = "NotFoundError" ->
         "No camera found. Please connect a camera and try again."
    [] OTHER -> "Failed to access camera. Please check your permissions."

\* loadModels resolves; the start/stop effect calls startCamera
ModelsLoaded ==
  /\ feed = "loading"
  /\ feed' = "acquiring"
  /\ UNCHANGED <<sessionState, display, videoState, stabilizer, timers, inflight,
                 detecting, samplesSeen, fetchClock, settle, ticks, merges,
                 lateOps, leaked, consentAccepted, uncaught>>

\* loadModels throws
ModelsFail ==
  /\ feed = "loading"
  /\ HandleCameraError(ModelsMessage)
  /\ Render("failed", lateOps, leaked)

\* getUserMedia resolves and the video plays
CameraAcquired ==
  /\ feed = "acquiring"
  /\ feed' = "streaming"
  /\ UNCHANGED <<sessionState, display, videoState, stabilizer, timers, inflight,
                 detecting, samplesSeen, fetchClock, settle, ticks, merges,
                 lateOps, leaked, consentAccepted, uncaught>>

\* getUserMedia rejects
CameraFail(name) ==
  /\ feed = "acquiring"
  /\ HandleCameraError(CameraErrorMessage(name))
  /\ Render("failed", lateOps, leaked)

\* loadModels of an unmounted CameraFeed resolves: its state updates are
\* dropped and its effect does not run
LateModelsLoaded ==
  /\ "loading" \in lateOps
  /\ lateOps' = lateOps \ {"loading"}
  /\ UNCHANGED <<sessionState, display, videoState, stabilizer, timers, inflight,
                 detecting, samplesSeen, fetchClock, settle, ticks, merges,
                 feed, leaked, consentAccepted, uncaught>>

\* loadModels of an unmounted CameraFeed throws
LateModelsFail ==
  /\ "loading" \in lateOps
  /\ HandleCameraError(ModelsMessage)
  /\ Render(feed, lateOps \ {"loading"}, leaked)

\* getUserMedia of an unmounted CameraFeed resolves: the stream is stored in
\* streamRef, videoRef.current is null and the assignment to its srcObject
\* throws a TypeError inside the try block
LateCameraAcquired ==
  /\ "acquiring" \in lateOps
  /\ HandleCameraError(CameraErrorMessage("TypeError"))
  /\ Render(feed, lateOps \ {"acquiring"}, TRUE)

\* getUserMedia of an unmounted CameraFeed rejects
LateCameraFail(name) ==
  /\ "acquiring" \in lateOps
  /\ HandleCameraError(CameraErrorMessage(name))
  /\ Render(feed, lateOps \ {"acquiring"}, leaked)

\* history: every fetch in flight was issued before the scan again
MarkStale(bag) ==
  LET old == BagToSet(bag)
      Was(g) == {f \in old : [f EXCEPT !.stale = TRUE] = g}
      Sum(S) == IF S = {} THEN 0
                ELSE LET a == CHOOSE f \in S : TRUE
                     IN bag[a] + (IF S = {a} THEN 0
                                  ELSE LET b == CHOOSE f \in S \ {a} : TRUE IN bag[b])
  IN [g \in {[f EXCEPT !.stale = TRUE] : f \in old} |-> Sum(Was(g))]

\* the Try Again button of the error card, the Scan Again button of the placeholder
ScanAgainShown == cameraError # None \/ (~cameraActive /\ ~showConsent)

\* a restart that keeps the accumulated list
HandleScanAgainKeepsList ==
  /\ ScanAgainShown
  /\ cameraError' = None
  /\ cameraActive' = TRUE
  /\ isScanning' = TRUE
  /\ currentEmotion' = None
  /\ searchKeyword' = NoKeyword
  /\ videos' = videos
  /\ hasLoadedVideos' = FALSE
  /\ stableEmotionRef' = None
  /\ stableCountRef' = 0
  /\ sinceLastFetch' = FETCH_COOLDOWN
  /\ StartCountdown
  /\ restartSince' = (sinceEmotionFetch >= 0)
  /\ expected' = {}
  /\ overlapped' = FALSE
  /\ inflight' = MarkStale(inflight)
  /\ UNCHANGED <<showConsent, isLoadingVideos, videoError, emotionTimerRef,
                 pendingTimeouts, detecting, samplesSeen, sinceEmotionFetch, settle,
                 consentAccepted, uncaught>>
  /\ Rendered

\* handleScanAgain
HandleScanAgain ==
  /\ ScanAgainShown
  /\ cameraError' = None
  /\ cameraActive' = TRUE
  /\ isScanning' = TRUE
  /\ currentEmotion' = None
  /\ searchKeyword' = NoKeyword
  /\ videos' = <<>>
  /\ hasLoadedVideos' = FALSE
  /\ stableEmotionRef' = None
  /\ stableCountRef' = 0
  /\ sinceLastFetch' = FETCH_COOLDOWN
  /\ StartCountdown
  /\ restartSince' = (sinceEmotionFetch >= 0)
  /\ expected' = {}
  /\ overlapped' = FALSE
  /\ inflight' = MarkStale(inflight)
  /\ UNCHANGED <<showConsent, isLoadingVideos, videoError, emotionTimerRef,
                 pendingTimeouts, detecting, samplesSeen, sinceEmotionFetch, settle,
                 consentAccepted, uncaught>>
  /\ Rendered

\* String.prototype.trim
RECURSIVE TrimStart(_)
TrimStart(str) ==
  IF str # <<>> /\ Head(str) \in Whitespace THEN TrimStart(Tail(str)) ELSE str

RECURSIVE TrimEnd(_)
TrimEnd(str) ==
  IF str # <<>> /\ str[Len(str)] \in Whitespace
  THEN TrimEnd(SubSeq(str, 1, Len(str) - 1))
  ELSE str

Trim(str) == TrimEnd(TrimStart(str))

\* a search form whose submit turns the camera off and leaves the scanning
\* flag set
HandleSearchKeepsScanning(query) ==
  /\ Trim(query) # <<>>
  /\ BagCardinality(inflight) < MaxInflight
  /\ searchKeyword' = [src |-> "manual", q |-> Trim(query)]
  /\ currentEmotion' = None
  /\ FetchVideos([src |-> "manual", q |-> Trim(query)])
  /\ IF cameraActive
     THEN /\ cameraActive' = FALSE
          /\ pendingIntervals' = ClearInterval(countdownTimerRef)
     ELSE UNCHANGED <<cameraActive, pendingIntervals>>
  /\ UNCHANGED <<showConsent, cameraError, isScanning, scanCountdown, emotionTimerRef,
                 countdownTimerRef, stabilizer, pendingTimeouts, detecting,
                 samplesSeen, fetchClock, settle, ticks, consentAccepted, uncaught>>
  /\ Rendered

\* a search form whose submit starts the cooldown of the emotion-triggered
\* fetches
HandleSearchStartsCooldown(query) ==
  /\ Trim(query) # <<>>
  /\ BagCardinality(inflight) < MaxInflight
  /\ searchKeyword' = [src |-> "manual", q |-> Trim(query)]
  /\ currentEmotion' = None
  /\ FetchVideos([src |-> "manual", q |-> Trim(query)])
  /\ IF cameraActive
     THEN /\ cameraActive' = FALSE
          /\ isScanning' = FALSE
          /\ pendingIntervals' = ClearInterval(countdownTimerRef)
     ELSE UNCHANGED <<cameraActive, isScanning, pendingIntervals>>
  /\ sinceLastFetch' = 0
  /\ UNCHANGED <<showConsent, cameraError, scanCountdown, emotionTimerRef,
                 countdownTimerRef, stabilizer, pendingTimeouts, detecting,
                 samplesSeen, sinceEmotionFetch, restartSince, settle, ticks,
                 consentAccepted, uncaught>>
  /\ Rendered

\* a search form whose submit leaves the countdown ticker running
HandleSearchKeepsTicker(query) ==
  /\ Trim(query) # <<>>
  /\ BagCardinality(inflight) < MaxInflight
  /\ searchKeyword' = [src |-> "manual", q |-> Trim(query)]
  /\ currentEmotion' = None
  /\ FetchVideos([src |-> "manual", q |-> Trim(query)])
  /\ IF cameraActive
     THEN /\ cameraActive' = FALSE
          /\ isScanning' = FALSE
          /\ UNCHANGED pendingIntervals
     ELSE UNCHANGED <<cameraActive, isScanning, pendingIntervals>>
  /\ UNCHANGED <<showConsent, cameraError, scanCountdown, emotionTimerRef,
                 countdownTimerRef, stabilizer, pendingTimeouts, detecting,
                 samplesSeen, fetchClock, settle, ticks, consentAccepted, uncaught>>
  /\ Rendered

\* submit of the search form with searchQuery = query
HandleSearch(query) ==
  /\ Trim(query) # <<>>
  /\ BagCardinality(inflight) < MaxInflight
  /\ searchKeyword' = [src |-> "manual", q |-> Trim(query)]
  /\ currentEmotion' = None
  /\ FetchVideos([src |-> "manual", q |-> Trim(query)])
  /\ IF cameraActive
     THEN /\ cameraActive' = FALSE
          /\ isScanning' = FALSE
          /\ pendingIntervals' = ClearInterval(countdownTimerRef)
     ELSE UNCHANGED <<cameraActive, isScanning, pendingIntervals>>
  /\ UNCHANGED <<showConsent, cameraError, scanCountdown, emotionTimerRef,
                 countdownTimerRef, stabilizer, pendingTimeouts, detecting,
                 samplesSeen, fetchClock, settle, ticks, consentAccepted, uncaught>>
  /\ Rendered

\* ------------------------------------------------------- the search route
\* what the request of the route to the YouTube API can come to:
\*   ok           a 2xx response whose body lists items
\*   no_items     a 2xx response whose JSON body has no items list
\*   refused      a non-2xx response whose JSON body carries error.message
\*   unparsable   a non-2xx response whose body is not JSON
\*   unreachable  fetch() rejects
Item(kind, video) == [kind |-> kind, videoId |-> video.id, title |-> video.title]

ProviderItems ==
  {<<>>, <<Item("youtube#video", V1)>>,
   <<Item("youtube#channel", V1), Item("youtube#video", V2)>>}

ProviderDetails == {"quotaExceeded", "keyInvalid"}

ProviderFailures ==
  [kind : {"refused"}, status : {400, 403}, detail : ProviderDetails, items : {<<>>}]
    \cup [kind : {"unparsable"}, status : {503}, detail : {"<html>"}, items : {<<>>}]
    \cup [kind : {"no_items"}, status : {200}, detail : {""}, items : {<<>>}]
    \cup [kind : {"unreachable"}, status : {0}, detail : {""}, items : {<<>>}]

ProviderOutcomes ==
  ProviderFailures
    \cup [kind : {"ok"}, status : {200}, detail : {""}, items : ProviderItems]

\* data.items.filter(item => item.id.kind === 'youtube#video').map(...)
RECURSIVE Sanitize(_)
Sanitize(items) ==
  IF items = <<>> THEN <<>>
  ELSE IF Head(items).kind = "youtube#video"
       THEN <<[id |-> Head(items).videoId, title |-> Head(items).title]>>
              \o Sanitize(Tail(items))
       ELSE Sanitize(Tail(items))

\* NextResponse.json(body, {status})
ErrorResponse(status, error) == [status |-> status, error |-> error, videos |-> <<>>]

\* !query || query.trim().length === 0, for the q of a request of fetchVideos:
\* a keyword of a table, or the trimmed contents of the search box
QueryMissing(keyword) == keyword.src = "manual" /\ Trim(keyword.q) = <<>>

\* a route that hands the provider's error message on to the client
GETPassingDetail(keyword, apiKey, provider) ==
  IF QueryMissing(keyword) THEN ErrorResponse(400, "Search query is required")
  ELSE IF ~apiKey THEN ErrorResponse(500, "YouTube API is not configured")
  ELSE CASE provider.kind = "refused" ->
              ErrorResponse(provider.status, provider.detail)
         [] provider.kind = "ok" ->
              [status |-> 200, error |-> "", videos |-> Sanitize(provider.items)]
         [] OTHER ->
              ErrorResponse(500, "An error occurred while fetching videos")

\* GET(request) of the route /api/youtube, for a request with this q, with
\* YOUTUBE_API_KEY set or not, and with this outcome of the provider request
GET(keyword, apiKey, provider) ==
  IF QueryMissing(keyword) THEN ErrorResponse(400, "Search query is required")
  ELSE IF ~apiKey THEN ErrorResponse(500, "YouTube API is not configured")
  ELSE CASE provider.kind = "refused" ->
              ErrorResponse(provider.status, "Failed to fetch videos from YouTube")
         [] provider.kind = "ok" ->
              [status |-> 200, error |-> "", videos |-> Sanitize(provider.items)]
         [] OTHER ->
              \* response.json() or data.items.filter throws, or fetch()
              \* rejects: the catch block
              ErrorResponse(500, "An error occurred while fetching videos")

\* response.ok
Ok(response) == response.status \in 200..299

\* the message fetchVideos shows for a response that is not ok:
\* data.error || 'Failed to fetch videos'
ClientMessage(response) ==
  IF response.error # "" THEN response.error ELSE "Failed to fetch videos"

\* the route answers a request of fetchVideos, and fetchVideos handles the
\* response
RouteResponds(f, apiKey, provider) ==
  LET response == GET(f.kw, apiKey, provider)
  IN IF Ok(response)
     THEN FetchSucceed(f, response.videos)
     ELSE FetchCaught(f, ClientMessage(response))

\* ---------------------------------------------------------------- the clock
TimerDue ==
  \/ \E t \in pendingTimeouts : t.left = 0
  \/ \E i \in pendingIntervals : i.left = 0

\* a distance from a past instant, saturated at cap; -1 is "no such instant"
Older(age, cap) == IF age < 0 \/ age >= cap THEN age ELSE age + 1

\* 100 ms pass
Tick ==
  /\ ~TimerDue
  /\ pendingTimeouts' = {[t EXCEPT !.left = @ - 1] : t \in pendingTimeouts}
  /\ pendingIntervals' = {[i EXCEPT !.left = @ - 1] : i \in pendingIntervals}
  /\ sinceLastFetch' = Older(sinceLastFetch, FETCH_COOLDOWN)
  /\ sinceEmotionFetch' = Older(sinceEmotionFetch, FETCH_COOLDOWN)
  /\ settleAge' = Older(settleAge, SETTLE_DELAY + 1)
  /\ UNCHANGED <<sessionState, cameraFeed, consentAccepted, uncaught, display, videoState, emotionTimerRef,
                 countdownTimerRef, stabilizer, inflight, detecting,
                 samplesSeen, restartSince, replaced, ticks, merges>>

\* ------------------------------------------------------------ specifications
\* The stabilizer and its debounce trigger within one scanning session: every
\* sample sequence, the timers, the stop button.  The start-up of the camera
\* is left to SpecCamera and SpecLoop: here a rendered CameraFeed delivers
\* frames at once (Frame), as if the models and the stream were ready.
Next ==
  \/ HandleAcceptConsent
  \/ HandleCameraStop
  \/ \E e \in SampleEmotions, c \in Confidences : Frame(e, c)
  \/ \E t \in pendingTimeouts : EmotionTimerFire(t)
  \/ \E i \in pendingIntervals : CountdownTick(i)
  \/ \E f \in BagToSet(inflight) : FetchFail(f, "network")
  \/ Tick

Spec == Init /\ [][Next]_vars

\* The session controller: sessions that end by expiry, stop or manual search
\* and restart with scan again, with one kind of sample.
NextSession ==
  \/ HandleAcceptConsent
  \/ HandleCameraStop
  \/ HandleScanAgain
  \/ HandleSearch(<<"a", " ", "b">>)
  \/ Frame("happy", 95)
  \/ \E t \in pendingTimeouts : EmotionTimerFire(t)
  \/ \E i \in pendingIntervals : CountdownTick(i)
  \/ \E f \in BagToSet(inflight) : FetchFail(f, "network")
  \/ Tick

SpecSession == Init /\ [][NextSession]_vars

\* The fetch orchestrator, from the instant a happy trigger is due in the first
\* session (accept, two happy frames, 300 ms): the emotion-triggered fetch and
\* manual searches overlap, complete in any order, and span restarts.
InitFetch ==
  /\ showConsent = FALSE
  /\ cameraActive = TRUE
  /\ cameraError = None
  /\ isScanning = TRUE
  /\ scanCountdown = SCAN_DURATION
  /\ currentEmotion = "happy"
  /\ searchKeyword = NoKeyword
  /\ videos = <<>>
  /\ isLoadingVideos = FALSE
  /\ videoError = None
  /\ hasLoadedVideos = FALSE
  /\ emotionTimerRef = 1
  /\ countdownTimerRef = 1
  /\ stableEmotionRef = "happy"
  /\ stableCountRef = STABLE_REQUIRED
  /\ sinceLastFetch = FETCH_COOLDOWN
  /\ pendingTimeouts = {[id |-> 1, left |-> 0, emotion |-> "happy"]}
  /\ pendingIntervals = {[id |-> 1, left |-> TICK_INTERVAL - SETTLE_DELAY]}
  /\ inflight = EmptyBag
  /\ detecting = FALSE
  /\ acceptedPrev = "happy"
  /\ pairSeen = TRUE
  /\ lowBetween = "no"
  /\ cooled = FALSE
  /\ lastThrew = FALSE
  /\ reported = NoReport
  /\ sinceEmotionFetch = -1
  /\ restartSince = FALSE
  /\ settleAge = SETTLE_DELAY
  /\ replaced = None
  /\ ticks = 0
  /\ expected = {}
  /\ overlapped = FALSE
  /\ feed = "loading"
  /\ lateOps = {}
  /\ leaked = FALSE
  /\ consentAccepted = TRUE
  /\ uncaught = None

NextFetch ==
  \/ HandleCameraStop
  \/ HandleScanAgain
  \/ \E q \in Queries : HandleSearch(q)
  \/ \E t \in pendingTimeouts : EmotionTimerFire(t)
  \/ \E f \in BagToSet(inflight), r \in Responses : FetchSucceed(f, r)
  \/ \E f \in BagToSet(inflight), x \in Failures : FetchFail(f, x)
  \/ ModelsFail

SpecFetch == InitFetch /\ [][NextFetch]_vars

\* The keywords of the emotion-triggered fetches of one scanning session:
\* an emotion with a table of its own and the one that shares its table, and
\* the first and the last keyword of a table.
NextKeyword ==
  \/ HandleAcceptConsent
  \/ \E e \in DetectableEmotions \ {"sad"} : Frame(e, 95)
  \/ \E t \in pendingTimeouts, r \in RandomDraws : EmotionTimerFireDrawn(t, r)
  \/ \E i \in pendingIntervals : CountdownTick(i)
  \/ \E f \in BagToSet(inflight) : FetchFail(f, "network")
  \/ Tick

SpecKeyword == Init /\ [][NextKeyword]_vars

\* Home is rendered: no uncaught error has taken the page down
HomeMounted == uncaught = None

\* The payloads of the fetch orchestrator: every failure and every body a
\* response can have, the body without a videos list included; nothing
\* happens in a page that was taken down.
NextPayload ==
  \/ HomeMounted /\ HandleScanAgain
  \/ HomeMounted /\ \E q \in Queries : HandleSearch(q)
  \/ HomeMounted /\ \E t \in pendingTimeouts : EmotionTimerFire(t)
  \/ HomeMounted /\ \E f \in BagToSet(inflight), r \in Responses : FetchSucceed(f, r)
  \/ HomeMounted /\ \E f \in BagToSet(inflight), x \in Failures : FetchFail(f, x)
  \/ HomeMounted /\ \E f \in BagToSet(inflight) : FetchMalformed(f)

SpecPayload == InitFetch /\ [][NextPayload]_vars

\* the state SpecFetch starts in is one Spec reaches
FetchStartReached == ~InitFetch

\* The session controller with the camera: consent, the model load and the
\* camera acquisition of each CameraFeed, their late completions, and every
\* way out of a scanning session; no samples.
NextCamera ==
  \/ HandleAcceptConsent
  \/ HandleDeclineConsent
  \/ HandleCameraStop
  \/ HandleScanAgain
  \/ \E q \in Queries : HandleSearch(q)
  \/ \E i \in pendingIntervals : CountdownTick(i)
  \/ \E f \in BagToSet(inflight) : FetchFail(f, "network")
  \/ ModelsLoaded
  \/ ModelsFail
  \/ CameraAcquired
  \/ \E n \in GetUserMediaErrors : CameraFail(n)
  \/ LateModelsLoaded
  \/ LateModelsFail
  \/ LateCameraAcquired
  \/ \E n \in GetUserMediaErrors : LateCameraFail(n)
  \/ Tick

SpecCamera == Init /\ [][NextCamera]_vars

\* The perception loop of one scanning session: the camera starts, each frame
\* analysis is started and later yields a sample or none, and the session
\* ends by the stop button or by expiry while an analysis may be pending.
NextLoop ==
  \/ HandleAcceptConsent
  \/ ModelsLoaded
  \/ CameraAcquired
  \/ DetectStart
  \/ NoFace
  \/ DetectThrows
  \/ Sample("happy", 95)
  \/ HandleCameraStop
  \/ \E t \in pendingTimeouts : EmotionTimerFire(t)
  \/ \E i \in pendingIntervals : CountdownTick(i)
  \/ \E f \in BagToSet(inflight) : FetchFail(f, "network")
  \/ Tick

SpecLoop == Init /\ [][NextLoop]_vars

\* The confidence gate within one scanning session: accepted and rejected
\* samples in every order, with the rejected ones recorded.
NextGate ==
  \/ HandleAcceptConsent
  \/ \E e \in SampleEmotions, c \in Confidences : FrameNoted(e, c)
  \/ \E t \in pendingTimeouts : EmotionTimerFire(t)
  \/ \E i \in pendingIntervals : CountdownTick(i)
  \/ \E f \in BagToSet(inflight) : FetchFail(f, "network")
  \/ Tick

SpecGate == Init /\ [][NextGate]_vars

\* The cooldown across sessions: the emotion-triggered fetches of sessions
\* that end by stop or expiry and restart, with one kind of sample and the
\* samples the cooldown held back recorded.
NextCooldown ==
  \/ HandleAcceptConsent
  \/ HandleCameraStop
  \/ HandleScanAgain
  \/ FrameCooled("happy", 95)
  \/ \E t \in pendingTimeouts : EmotionTimerFire(t)
  \/ \E i \in pendingIntervals : CountdownTick(i)
  \/ \E f \in BagToSet(inflight) : FetchFail(f, "network")
  \/ Tick

SpecCooldown == Init /\ [][NextCooldown]_vars

\* The classifier adapter: the frames of one scanning session with every
\* score vector, the emotion and the confidence passed on for each recorded,
\* and the stop button.
NextClassifier ==
  \/ HandleAcceptConsent
  \/ HandleCameraStop
  \/ \E x \in ExpressionVectors : FrameScored(x)

SpecClassifier == Init /\ [][NextClassifier]_vars

\* The timers across sessions: the countdown ticker and the debounce trigger
\* of sessions that end by stop, expiry or a model load that fails before a
\* frame is analysed, and restart.
NextTimers ==
  \/ HandleAcceptConsent
  \/ HandleCameraStop
  \/ HandleScanAgain
  \/ Frame("happy", 95)
  \/ \E t \in pendingTimeouts : EmotionTimerFire(t)
  \/ \E i \in pendingIntervals : CountdownTick(i)
  \/ \E f \in BagToSet(inflight) : FetchFail(f, "network")
  \/ stableEmotionRef = None /\ ModelsFail
  \/ Tick

SpecTimers == Init /\ [][NextTimers]_vars

\* The search route behind the fetch orchestrator: every request of
\* fetchVideos is answered by the route, with the API key set or not and with
\* every outcome of the provider request.
NextRoute ==
  \/ HandleScanAgain
  \/ \E q \in Queries : HandleSearch(q)
  \/ \E t \in pendingTimeouts : EmotionTimerFire(t)
  \/ \E f \in BagToSet(inflight), k \in BOOLEAN, p \in ProviderOutcomes :
       RouteResponds(f, k, p)

SpecRoute == InitFetch /\ [][NextRoute]_vars

\* ------------------------------------------------------- the fetch orchestrator
\* C1: the accumulated video list never holds two items with the same id,
\* whatever ids the successful responses list.
C1_NoDuplicateIds ==
  \A i, j \in 1..Len(videos) : videos[i].id = videos[j].id => i = j

\* the part of C2 that does not depend on C1: no completion order loses an id
\* of a response merged since the last scan again
UnionKept == expected \subseteq Ids(videos)

C3_StaleResponseDiscarded == Ids(videos) \subseteq expected

\* C4: a fetch that fails on the network, or with a non-2xx status and an
\* error body, leaves the accumulated list as it is and sets a video error.
C4_FailureKeepsList ==
  [][\A f \in BagToSet(inflight), x \in {"network", "http_error"} :
       FetchFail(f, x) => (videos' = videos /\ videoError' \notin {None, ""})]_vars

\* a fetch has failed while the list held items
C4_Witness == videoError # None /\ videos # <<>>

\* ------------------------------------------------------------ the stabilizer
\* a debounce trigger is pending for the emotion
TriggerPending(emotion) == \E t \in pendingTimeouts : t.emotion = emotion

\* the one pending trigger is a fresh one for the emotion
OnlyFreshTrigger(emotion) ==
  pendingTimeouts' =
    {[id |-> emotionTimerRef', left |-> SETTLE_DELAY, emotion |-> emotion]}

\* C5: no emotion-triggered fetch is scheduled or issued before two
\* consecutive accepted samples (confidence >= 0.90) carried the same label,
\* and every sample that schedules one carries the label of the accepted
\* sample before it.
C5_NoFetchBeforeStablePair ==
  [][/\ (pendingTimeouts' # {} \/ sinceEmotionFetch' >= 0) => pairSeen'
     /\ emotionTimerRef' # emotionTimerRef
          => (acceptedPrev # None /\ acceptedPrev' = acceptedPrev)]_vars

\* an emotion-triggered fetch has just been issued
C5_Witness == sinceEmotionFetch = 0 /\ pairSeen /\ inflight # EmptyBag

\* C7: at no time are two debounce triggers pending, and when a second
\* consecutive accepted sample of emotion B arrives while a trigger for a
\* different emotion is pending, that trigger is cancelled and a trigger for B
\* with the full settle delay is the only one pending.
C7_NewStableEmotionSupersedes ==
  [][/\ Cardinality(pendingTimeouts') <= 1
     /\ \A e \in SampleEmotions, c \in Confidences :
          (/\ Frame(e, c)
           /\ c >= HIGH_CONFIDENCE
           /\ acceptedPrev = e
           /\ \E t \in pendingTimeouts : t.emotion # e)
            => OnlyFreshTrigger(e)]_vars

\* the pending trigger superseded one for a different emotion
C7_Witness ==
  \E t \in pendingTimeouts : replaced # None /\ t.emotion # replaced

\* C8 as stated: once (happy,0.95),(happy,0.92) have scheduled the first
\* fetch, one accepted sad sample leaves no happy trigger pending.
C8_OneSadSampleSupersedes ==
  (sinceEmotionFetch = -1 /\ acceptedPrev = "sad") => ~TriggerPending("happy")

\* C8, amended: one accepted sad sample leaves the happy trigger as it is, and
\* the second consecutive one cancels it and schedules a sad trigger.
C8_SecondSadSampleSupersedes ==
  [][(Frame("sad", 95) /\ TriggerPending("happy"))
       => IF acceptedPrev = "sad"
          THEN OnlyFreshTrigger("sad")
          ELSE pendingTimeouts' = pendingTimeouts /\ stableCountRef' = 1]_vars

\* one accepted sad sample has arrived and the happy trigger is still pending
C8_Witness ==
  /\ stableEmotionRef = "sad"
  /\ stableCountRef = 1
  /\ TriggerPending("happy")

\* C9: accepted samples of the emotion a trigger is pending for do not
\* postpone it: the fetch is due one settle delay after the emotion's first
\* trigger.
C9_SameEmotionDoesNotPostpone ==
  \A t \in pendingTimeouts : settleAge + t.left <= SETTLE_DELAY

\* ----------------------------------------------------- the session controller
\* an emotion-triggered fetch is issued in this step
EmotionFetchIssued == \E t \in pendingTimeouts : EmotionTimerFire(t)

\* C6 as stated: over any operations, scan again included, an
\* emotion-triggered fetch is issued at least 3 s after the one before it.
C6_AlwaysCooldownApart ==
  [][(EmotionFetchIssued /\ sinceEmotionFetch >= 0)
       => sinceEmotionFetch >= FETCH_COOLDOWN]_vars

\* C6, amended: an emotion-triggered fetch is issued at least 3 s after the one
\* before it, unless a scan again happened between the two.
C6_CooldownApartWithinSession ==
  [][(EmotionFetchIssued /\ sinceEmotionFetch >= 0 /\ ~restartSince)
       => sinceEmotionFetch >= FETCH_COOLDOWN]_vars

\* two emotion-triggered fetches of one session await their responses
C6_Witness ==
  /\ ~restartSince
  /\ CopiesIn([kw |-> [src |-> "emotion", q |-> "happy"], stale |-> FALSE],
              inflight) = 2

C11_NoLiveStreamOutsideScanning ==
  (feed = "streaming" \/ leaked) => isScanning

\* C12: the camera is active only in sessions where consent was accepted:
\* after a decline no action of the application activates it.
C12_DeclineIsTerminal == cameraActive => consentAccepted

\* ------------------------------------------------------------- manual search
\* the fetch a search for "a b", with or without blanks around it, issues
ManualFetch == [kw |-> [src |-> "manual", q |-> <<"a", " ", "b">>], stale |-> FALSE]

\* C13: a manual search with a query that is not blank, issued while
\* Scanning, ends the scanning session, cancels the countdown ticker, and
\* issues exactly one fetch, for the trimmed query, whatever the stabilizer's
\* state and pending trigger are (which it leaves alone).
C13_SearchInterruptsScanning ==
  [][\A q \in Queries :
       (HandleSearch(q) /\ isScanning)
         => /\ ~cameraActive' /\ ~isScanning'
            /\ pendingIntervals' = {}
            /\ inflight' = inflight (+) SetToBag({ManualFetch})
            /\ searchKeyword' = ManualFetch.kw
            /\ UNCHANGED <<stabilizer, sinceLastFetch, pendingTimeouts>>]_vars

\* a search has ended a scanning session that had a debounce trigger pending
C13_Witness ==
  /\ BagIn(ManualFetch, inflight)
  /\ ~cameraActive
  /\ pendingIntervals = {}
  /\ pendingTimeouts # {}
  /\ ticks < SCAN_DURATION

\* ------------------------------------------------------------------- restart
\* the step is a scan again / try again: the camera is activated and the
\* consent prompt is not the one that did it
Restarts == ~showConsent /\ ~cameraActive /\ cameraActive'

\* C14: immediately after every scan again / try again the list is empty,
\* the run-length counter is 0, the last emotion is none, the cooldown is
\* cleared, no camera error is set, and the session is Scanning with a fresh
\* countdown of SCAN_DURATION.
C14_RestartResets ==
  [][Restarts
       => /\ videos' = <<>>
          /\ stableCountRef' = 0
          /\ stableEmotionRef' = None
          /\ sinceLastFetch' >= FETCH_COOLDOWN
          /\ cameraError' = None
          /\ cameraActive' /\ isScanning'
          /\ scanCountdown' = SCAN_DURATION
          /\ pendingIntervals' =
               {[id |-> countdownTimerRef', left |-> TICK_INTERVAL]}]_vars

\* a session with a stable emotion and a fetch issued has been restarted
C14_Witness ==
  /\ restartSince
  /\ isScanning
  /\ ticks = 0
  /\ videos = <<>>
  /\ stableCountRef = 0

\* ---------------------------------------------------- leaving a scanning session
\* C15: no debounce trigger is pending while the session is not Scanning:
\* every way out of Scanning cancels it.
C15_TriggerCancelledOutsideScanning == ~isScanning => pendingTimeouts = {}

\* C16: the countdown ticker is not running while the session is not
\* Scanning: every way out of Scanning cancels it.
C16_TickerCancelledOutsideScanning == ~isScanning => pendingIntervals = {}

\* C17: once the session has left Scanning no sample reaches the stabilizer:
\* while the camera stays inactive the run-length state does not change and
\* no debounce trigger is scheduled.
C17_NoSampleAfterSessionEnd ==
  [][(~cameraActive /\ ~cameraActive')
       => UNCHANGED <<stableEmotionRef, stableCountRef, emotionTimerRef>>]_vars

\* ------------------------------------------------------------ session states
AwaitingConsent == showConsent
Scanning == cameraActive /\ isScanning
InError == cameraError # None
Idle == ~showConsent /\ ~cameraActive /\ ~isScanning /\ cameraError = None

\* C18: exactly one of the four session states is active: the consent
\* prompt, the active camera and a camera error exclude each other, and the
\* scanning flag goes with the active camera.
C18_OneSessionState ==
  /\ Cardinality({k \in {"consent", "scanning", "error", "idle"} :
                    \/ k = "consent" /\ AwaitingConsent
                    \/ k = "scanning" /\ Scanning
                    \/ k = "error" /\ InError
                    \/ k = "idle" /\ Idle}) = 1
  /\ cameraActive = isScanning

\* the error of a stream acquired by an unmounted CameraFeed has ended a
\* restarted session
C18_Witness ==
  /\ InError
  /\ leaked
  /\ cameraError = CameraErrorMessage("TypeError")
  /\ countdownTimerRef = 2
  /\ pendingIntervals # {}

\* the part of C19 about the states: Scanning has a countdown above 0 and
\* its ticker
ScanningHasCountdown ==
  isScanning => /\ scanCountdown > 0
                /\ \E i \in pendingIntervals : i.id = countdownTimerRef

\* C19: the session is Scanning only with a countdown above 0 and its ticker
\* active, and in the step in which the countdown reaches 0 the session
\* becomes Idle/ResultsReady.
C19_ZeroMeansIdle ==
  [][/\ ScanningHasCountdown'
     /\ (scanCountdown # 0 /\ scanCountdown' = 0) => Idle']_vars

\* C20: an accepted sample (confidence >= 0.90, the threshold included)
\* whose emotion differs from the last one sets the run length to 1 and the
\* last emotion to its own; one with the same emotion adds 1 to the run
\* length.
C20_RunLengthRule ==
  [][\A e \in SampleEmotions, c \in Confidences :
       (Frame(e, c) /\ c >= HIGH_CONFIDENCE)
         => /\ stableEmotionRef' = e
            /\ stableCountRef' =
                 IF e # stableEmotionRef THEN 1 ELSE stableCountRef + 1]_vars

\* a run of accepted samples has been followed by one of the other emotion
C20_Witness ==
  /\ pairSeen
  /\ stableEmotionRef = "sad"
  /\ stableCountRef = 1
  /\ currentEmotion = "happy"

\* --------------------------------------------------------- rejected samples
\* C21: a sample with confidence below 0.90 leaves the last emotion, the run
\* length, the cooldown timestamp, the displayed emotion and the pending
\* trigger as they are, and the accepted sample after it continues the run
\* the rejected one interrupted (happy 0.95, sad 0.50, happy 0.95: happy is
\* stable).
C21_LowConfidenceIsNoOp ==
  [][/\ \A e \in SampleEmotions, c \in Confidences :
          (FrameNoted(e, c) /\ c < HIGH_CONFIDENCE)
            => UNCHANGED <<stableEmotionRef, stableCountRef, sinceLastFetch,
                           currentEmotion, emotionTimerRef, pendingTimeouts>>
     /\ (lowBetween' = "bridged" /\ lowBetween = "other")
          => /\ stableEmotionRef' = stableEmotionRef
             /\ stableCountRef' = stableCountRef + 1
             /\ currentEmotion' = stableEmotionRef]_vars

\* happy, a rejected sad, happy: happy is stable and its first trigger pending
C21_Witness ==
  /\ lowBetween = "bridged"
  /\ stableEmotionRef = "happy"
  /\ stableCountRef = STABLE_REQUIRED
  /\ currentEmotion = "happy"
  /\ TriggerPending("happy")
  /\ sinceEmotionFetch = -1

\* ------------------------------------------------------------- the cooldown
\* the step delivers an accepted happy sample that makes or keeps happy
\* stable, less than 3 s after the last emotion-triggered fetch
StableInsideCooldown ==
  /\ FrameCooled("happy", 95)
  /\ IsStable(stableCountRef')
  /\ sinceEmotionFetch >= 0
  /\ sinceEmotionFetch < FETCH_COOLDOWN

\* the step shows the emotion and leaves the triggers and the fetches alone
DisplayOnly ==
  /\ currentEmotion' = "happy"
  /\ UNCHANGED <<emotionTimerRef, pendingTimeouts, inflight, searchKeyword,
                 sinceLastFetch>>

\* C22 as stated: a stable detection less than 3 s after the last
\* emotion-triggered fetch updates the displayed emotion, schedules and
\* cancels no trigger and issues no request.
C22_NoTriggerInsideCooldown ==
  [][StableInsideCooldown => DisplayOnly]_vars

\* C22, amended: the same, unless a scan again happened since that fetch.
C22_NoTriggerInsideCooldownOfSession ==
  [][(StableInsideCooldown /\ ~restartSince) => DisplayOnly]_vars

\* the last sample was a stable detection inside the cooldown of the
\* session's emotion-triggered fetch: happy is displayed, no trigger is
\* scheduled
C22_Witness ==
  /\ cooled
  /\ isScanning
  /\ currentEmotion = "happy"
  /\ sinceEmotionFetch >= 0
  /\ sinceEmotionFetch < FETCH_COOLDOWN
  /\ ~restartSince
  /\ pendingTimeouts = {}

\* ------------------------------------------------------------------ the merge
\* C23: merging a response into the list twice gives the list that merging
\* it once gives, for every list the application holds and every response.
C23_MergeIdempotent ==
  \A r \in Responses :
    MergeVideos(MergeVideos(videos, r), r) = MergeVideos(videos, r)

\* the list holds the items of two merges, and a response that lists two
\* items would be merged into it again
C23_Witness ==
  /\ Len(videos) >= 2
  /\ Ids(videos) = {"v1", "v2"}
  /\ \E r \in Responses : Len(r) >= 2 /\ MergeVideos(videos, r) = videos

\* two fetches of the session await their responses
TwoRacing ==
  /\ BagCardinality(inflight) >= 2
  /\ \A f \in BagToSet(inflight) : ~f.stale

\* C24: whatever two racing fetches respond, merging their responses in
\* either order gives the same list: the same items, with the same contents
\* per id, in the same sequence.
C24_MergeCommutes ==
  TwoRacing =>
    \A r1, r2 \in Responses :
      MergeVideos(MergeVideos(videos, r1), r2)
        = MergeVideos(MergeVideos(videos, r2), r1)

\* the part of C24 that holds: both orders give the same set of ids
SameIdsInEitherOrder ==
  \A r1, r2 \in Responses :
    Ids(MergeVideos(MergeVideos(videos, r1), r2))
      = Ids(MergeVideos(MergeVideos(videos, r2), r1))

\* C25: a successful merge keeps the previous list as a prefix, and appends
\* the response's items whose id the previous list did not hold, in the
\* response's order.
C25_MergeAppendsInArrivalOrder ==
  [][\A f \in BagToSet(inflight), r \in Responses :
       FetchSucceed(f, r)
         => /\ Len(videos') >= Len(videos)
            /\ SubSeq(videos', 1, Len(videos)) = videos
            /\ SubSeq(videos', Len(videos) + 1, Len(videos'))
                 = SelectSeq(r, LAMBDA v :
                     \A i \in 1..Len(videos) : videos[i].id # v.id)]_vars

\* the responses of two overlapping fetches were merged: the one that
\* arrived first brought v2, and the later one's item with the id v1 was
\* appended behind it
C25_Witness ==
  /\ overlapped
  /\ inflight = EmptyBag
  /\ Len(videos) = 2
  /\ videos[1] = V2
  /\ videos[2] = V1Retitled

\* C26: the list is empty right after a scan again and right after a manual
\* search is issued.
C26_ClearedOnRestartAndSearch ==
  [][(Restarts \/ \E q \in Queries : HandleSearch(q)) => videos' = <<>>]_vars

\* ------------------------------------------------------- malformed payloads
\* C27: a response whose body is not JSON, or is 2xx without a videos list,
\* is caught inside fetchVideos: a video error is set, the list is left as it
\* is, and no error escapes.
C27_MalformedPayloadCaught ==
  [][\A f \in BagToSet(inflight) :
       (FetchFail(f, "bad_json") \/ FetchMalformed(f))
         => /\ videoError' \notin {None, ""}
            /\ videos' = videos
            /\ uncaught' = None]_vars

\* the part of C27 that holds: a body that is not JSON
BadJsonCaught ==
  [][\A f \in BagToSet(inflight) :
       FetchFail(f, "bad_json")
         => /\ videoError' \notin {None, ""}
            /\ videos' = videos
            /\ uncaught' = None]_vars

\* -------------------------------------------------- camera and model failures
\* the session is in Error with the message, the camera off
InErrorWith(message) ==
  /\ cameraError' = message
  /\ ~cameraActive'
  /\ ~isScanning'
  /\ ~showConsent'

\* C28: a rejected camera access (permission denied, no device, anything
\* else) and a failed model load each put the session in Error with the
\* camera inactive, the scanning flag false and the message of their cause,
\* and the four causes have four different messages.
C28_FailureEndsInError ==
  [][/\ \A n \in GetUserMediaErrors :
          (CameraFail(n) \/ LateCameraFail(n)) => InErrorWith(CameraErrorMessage(n))
     /\ (ModelsFail \/ LateModelsFail) => InErrorWith(ModelsMessage)
     /\ LateCameraAcquired => InErrorWith(CameraErrorMessage("TypeError"))
     /\ Cardinality({CameraErrorMessage(n) : n \in GetUserMediaErrors}
                      \cup {ModelsMessage}) = 4]_vars

\* a scanning attempt whose camera was being acquired has ended in Error:
\* no camera was found
C28_Witness ==
  /\ cameraError = "No camera found. Please connect a camera and try again."
  /\ ~cameraActive
  /\ ~isScanning
  /\ feed = "none"
  /\ lateOps = {}
  /\ ticks = 0

\* ------------------------------------------------------- the perception loop
\* C29: an error thrown by the analysis of a frame changes neither the
\* session nor the stabilizer nor any timer, and leaves the loop of the
\* CameraFeed ready for its next iteration (DetectStart is enabled again
\* while the camera streams).
C29_FrameErrorSwallowed ==
  [][DetectThrows
       => /\ UNCHANGED <<sessionState, stabilizer, display, timers, cameraFeed,
                         uncaught>>
          /\ ~detecting']_vars

\* the analysis of the frame after a first accepted sample threw: the
\* session is Scanning, the run is as it was, the loop goes on
C29_Witness ==
  /\ lastThrew
  /\ ~detecting
  /\ feed = "streaming"
  /\ isScanning
  /\ stableCountRef = 1

\* ------------------------------------------------------------- the keywords
\* the keywords of a table
KeywordSet(emotion) ==
  {Keywords(emotion)[i] : i \in DOMAIN Keywords(emotion)}

C31_EachEmotionReported ==
  CameraFeedMounted
    => \A e \in Emotions :
         \E x \in ExpressionVectors : MapExpressionToEmotion(x) = e

\* the emotion the adapter never reports
SurprisedNeverReported == reported.emotion # "surprised"

\* the greatest of the scores of happy, of sad, and of neutral and surprised
\* taken together
GreatestScore(x) ==
  CHOOSE m \in {x.happy, x.sad, x.neutral + x.surprised} :
    \A n \in {x.happy, x.sad, x.neutral + x.surprised} : n <= m

\* C34: the emotion reported for a frame is the label with the greatest score
\* among happy, sad and neutral + surprised, the earlier label of happy, sad,
\* neutral on a tie, and neutral whenever that greatest score is below 0.3;
\* it is never surprised, angry, fearful or disgusted.
C34_GreatestOfThree ==
  reported.emotion # None
    => /\ reported.emotion =
            IF GreatestScore(reported.scores) < 30 THEN "neutral"
            ELSE IF reported.scores.happy = GreatestScore(reported.scores) THEN "happy"
            ELSE IF reported.scores.sad = GreatestScore(reported.scores) THEN "sad"
            ELSE "neutral"
       /\ reported.emotion \notin {"surprised", "angry", "fearful", "disgusted"}

\* a frame whose score of happy ties with that of neutral and surprised taken
\* together, above 0.3, has been reported as happy
C34_Witness ==
  /\ reported.emotion = "happy"
  /\ reported.scores.happy >= 30
  /\ reported.scores.happy = reported.scores.neutral + reported.scores.surprised
  /\ reported.scores.surprised > 0

\* C35: a frame whose dominant expression is surprised with a score of 0.90
\* or more is accepted by the stabilizer as a neutral sample, and the second
\* of two consecutive such frames makes neutral the stable emotion and,
\* the cooldown permitting, schedules a trigger for neutral.
C35_SurprisedAcceptedAsNeutral ==
  [][\A x \in ExpressionVectors :
       (x.surprised >= HIGH_CONFIDENCE /\ FrameScored(x))
         => /\ acceptedPrev' = "neutral"
            /\ stableEmotionRef' = "neutral"
            /\ (reported.emotion # None /\ reported.scores.surprised >= HIGH_CONFIDENCE)
                 => /\ IsStable(stableCountRef')
                    /\ currentEmotion' = "neutral"
                    /\ CooldownElapsed => \E t \in pendingTimeouts' : t.emotion = "neutral"]_vars

\* ---------------------------------------------------------- the search route
\* C32 as stated: whatever way the provider request of a pending fetch fails,
\* the client gets one and the same error message.
C32_OneGenericMessage ==
  \A f \in BagToSet(inflight), p1 \in ProviderFailures, p2 \in ProviderFailures :
    ClientMessage(GET(f.kw, TRUE, p1)) = ClientMessage(GET(f.kw, TRUE, p2))

\* C32, amended: the error message the client gets for a failed provider
\* request is one of two fixed messages, chosen by the kind of failure alone:
\* two requests that differ only in the status and the error detail the
\* provider sends get the same message, and no message shown is a provider
\* detail.
C32_GenericMessagePerKind ==
  /\ \A f \in BagToSet(inflight), p1 \in ProviderFailures, p2 \in ProviderFailures :
       /\ p1.kind = p2.kind
            => ClientMessage(GET(f.kw, TRUE, p1)) = ClientMessage(GET(f.kw, TRUE, p2))
       /\ ClientMessage(GET(f.kw, TRUE, p1)) =
            IF p1.kind = "refused" THEN "Failed to fetch videos from YouTube"
            ELSE "An error occurred while fetching videos"
  /\ videoError \notin ProviderDetails

\* the message of a refused provider request is shown while another fetch
\* awaits its response
C32_Witness ==
  /\ videoError = "Failed to fetch videos from YouTube"
  /\ inflight # EmptyBag

\* C33: when the API key is missing, the message the user sees is one the
\* user also sees for another server-side failure, so it does not tell that
\* the cause is a missing configuration.
C33_MissingKeyNotRevealed ==
  [][\A f \in BagToSet(inflight), p \in ProviderOutcomes :
       RouteResponds(f, FALSE, p)
         => \E q \in ProviderFailures :
              videoError' = ClientMessage(GET(f.kw, TRUE, q))]_vars

\* ------------------------------------------------------- the session flags
\* C36: in every reachable state the camera-active flag equals the scanning
\* flag; an operation that changes one changes the other to the same value.
C36_CameraActiveIsScanning == cameraActive <=> isScanning

\* a restarted session has been ended by a manual search, and both flags are
\* off
C36_Witness ==
  /\ ~cameraActive
  /\ ~isScanning
  /\ countdownTimerRef = 2
  /\ searchKeyword.src = "manual"
  /\ inflight # EmptyBag
  /\ scanCountdown > 0

\* ------------------------------------------------------ overlapping fetches
\* C37: the loading indicator is on exactly while a fetch awaits its
\* response; when one of two overlapping fetches completes, it stays on for
\* the other.
C37_LoadingWhileInFlight == isLoadingVideos <=> inflight # EmptyBag

\* C38: when a fetch completes with success, the video error is null
\* afterwards, whatever an overlapping fetch that failed earlier has set.
C38_SuccessLeavesNoError ==
  [][\A f \in BagToSet(inflight), r \in Responses :
       FetchSucceed(f, r) => videoError' = None]_vars

\* ------------------------------------------------ manual search and stabilizer
\* C39: a manual search leaves the stabilizer as it is: the last emotion,
\* the run-length counter and the time of the last emotion-triggered fetch
\* are the same after it as before, so it neither starts nor resets the
\* cooldown.
C39_SearchLeavesStabilizer ==
  [][\A q \in Queries :
       HandleSearch(q)
         => UNCHANGED <<stableEmotionRef, stableCountRef, sinceLastFetch>>]_vars

\* a manual search has been submitted inside the cooldown of the
\* emotion-triggered fetch that is still in flight, with happy stable
\* and the cooldown still running
C39_Witness ==
  /\ searchKeyword.src = "manual"
  /\ BagCardinality(inflight) = 2
  /\ \E f \in BagToSet(inflight) : f.kw.src = "emotion" /\ ~f.stale
  /\ sinceLastFetch = 0
  /\ stableEmotionRef = "happy"
  /\ stableCountRef = STABLE_REQUIRED

\* ------------------------------------------------------------- the timers
\* C40: at every moment at most one countdown ticker and at most one
\* debounce trigger are outstanding, and while a trigger is pending the
\* cooldown check passes, so a stable sample that arrives while a trigger is
\* pending replaces that trigger by a fresh one.
C40_OneTickerOneTrigger ==
  [][/\ Cardinality(pendingIntervals') <= 1
     /\ Cardinality(pendingTimeouts') <= 1
     /\ pendingTimeouts # {} => CooldownElapsed
     /\ (/\ Frame("happy", 95)
         /\ IsStable(stableCountRef')
         /\ pendingTimeouts # {})
          => OnlyFreshTrigger("happy")]_vars

\* in a restarted session a stable sample has replaced the pending trigger
\* by a fresh one, and the ticker of the restart is the only one
C40_Witness ==
  /\ isScanning
  /\ countdownTimerRef = 2
  /\ pendingIntervals = {[id |-> 2, left |-> TICK_INTERVAL - 1]}
  /\ settleAge > 0
  /\ pendingTimeouts =
       {[id |-> emotionTimerRef, left |-> SETTLE_DELAY, emotion |-> "happy"]}

====
